---- MODULE Spec2Model ----
(***************************************************************************)
(* A model of openai-fetch: the transport adapter (createApiInstance, its  *)
(* post and extend), the before-error normalizer, the retry policy handed  *)
(* to the HTTP helper, the transcription facade and the stream chunk       *)
(* decoder.  Each component has its own specification over the shared      *)
(* variables; a component's specification leaves the others' variables     *)
(* at their initial values.                                                *)
(***************************************************************************)
EXTENDS Integers, Sequences, FiniteSets, TLC

VARIABLES config, adapters, hookHeap, requests, aborted, rt, nz, tr, sd

vars == <<config, adapters, hookHeap, requests, aborted, rt, nz, tr, sd>>

\* JavaScript's undefined.
Undef == "undefined"

\* An optional object (a header map, a hook list): None is undefined.
None == <<>>
Some(x) == <<x>>

\* a || b on values that are undefined or truthy
Or(a, b) == IF a # Undef THEN a ELSE b

SeqMax(S) == CHOOSE m \in S : \A x \in S : x <= m

(***************************************************************************)
(* Bounds of the adapter component.                                        *)
(***************************************************************************)
\* adapters alive at once (the client's base adapter included)
MaxAdapters == 3
\* requests remembered at once
MaxRequests == 2

(***************************************************************************)
(* Transport adapter: src/unnamed/part_001 (fetch-api).                    *)
(***************************************************************************)
DEFAULT_BASE_URL == "https://api.openai.com/v1"

\* Header objects: {} and {key: val}.
EmptyMap == [k \in {} |-> "x"]
One(key, val) == [k \in {key} |-> val]
\* the header objects given per call, and at construction
OverrideHeaders == {None, Some(One("X-Trace", "x")), Some(One("X-Trace", "y")),
                    Some(One("User-Agent", "y"))}
ConfigHeaders == {None, Some(One("X-Trace", "x")), Some(One("User-Agent", "x"))}
Signals == {"s1"}

\* A plausible slip in a spread: the earlier object wins on key collision.
SpreadFirstWins(a, b) ==
    [k \in (DOMAIN a) \cup (DOMAIN b) |-> IF k \in DOMAIN a THEN a[k] ELSE b[k]]

\* The object spread {...a, ...b}: b wins on key collision.
Spread(a, b) ==
    [k \in (DOMAIN a) \cup (DOMAIN b) |-> IF k \in DOMAIN b THEN b[k] ELSE a[k]]

\* ...(cond && {key: val}) inside an object literal
SpreadIf(cond, key, val) == IF cond THEN One(key, val) ELSE EmptyMap

\* `Bearer ${apiKey}`
Bearer(apiKey) == IF apiKey = "sk-1" THEN "Bearer sk-1" ELSE "Bearer"

\* headers || {}
OrEmpty(h) == IF h = None THEN EmptyMap ELSE h[1]

\* ky.extend / the request options: the hook lists are copied into the
\* instance (ky merges hooks into new arrays), so a later push to the
\* caller's list does not reach an instance made earlier.
KySnapshot(list) == list

\* createApiInstance(args) on the heap of hooks objects.  args.kyOptions.hooks
\* is a reference into the heap (0: the caller gave none and the destructuring
\* default `hooks = {}` makes a fresh object).  A heap cell is the object's
\* beforeError list, or None while the object has none.
createApiInstance(args, heap) ==
    LET kyOptions == args.kyOptions
        headers   == kyOptions.headers
        fresh     == kyOptions.hooks = 0
        ref       == IF fresh THEN Len(heap) + 1 ELSE kyOptions.hooks
        heap1     == IF fresh THEN Append(heap, None) ELSE heap
        \* if (!hooks.beforeError) hooks.beforeError = [];
        heap2     == IF heap1[ref] = None THEN [heap1 EXCEPT ![ref] = Some(<<>>)] ELSE heap1
        \* hooks.beforeError.push(normalizer)
        heap3     == [heap2 EXCEPT ![ref] = Some(Append(@[1], "normalizer"))]
        kyBase    ==
            [ prefixUrl |-> Or(args.baseUrl, Or(kyOptions.prefixUrl, DEFAULT_BASE_URL)),
              headers   |->
                  Spread(
                    Spread(
                      Spread(One("User-Agent", "openai-fetch"),
                             SpreadIf(args.apiKey # Undef, "Authorization",
                                      Bearer(args.apiKey))),
                      SpreadIf(args.organizationId # Undef, "OpenAI-Organization",
                               args.organizationId)),
                    OrEmpty(headers)),
              hooks     |-> KySnapshot(heap3[ref][1]) ]
    IN  [ adapter |-> [ apiKey         |-> args.apiKey,
                        baseUrl        |-> args.baseUrl,
                        organizationId |-> args.organizationId,
                        kyOptions      |-> kyOptions,
                        ky             |-> kyBase ],
          heap    |-> heap3 ]

\* A plausible slip in extend: the overrides' headers are not merged.
extend_DropsHeaders(ad, overrides) ==
    [ apiKey         |-> ad.apiKey,
      baseUrl        |-> Or(ad.baseUrl, Or(ad.kyOptions.prefixUrl, DEFAULT_BASE_URL)),
      organizationId |-> ad.organizationId,
      kyOptions      |->
          [ad.kyOptions EXCEPT !.headers =
              Some(OrEmpty(ad.kyOptions.headers))] ]

\* adapter.extend(overrides): the arguments of the createApiInstance call it
\* makes.  Only overrides.headers is read; overrides.signal is not.
extend(ad, overrides) ==
    LET mergedHeaders ==
            Spread(OrEmpty(ad.kyOptions.headers), OrEmpty(overrides.headers))
    IN  [ apiKey         |-> ad.apiKey,
          baseUrl        |-> Or(ad.baseUrl, Or(ad.kyOptions.prefixUrl, DEFAULT_BASE_URL)),
          organizationId |-> ad.organizationId,
          kyOptions      |-> [ad.kyOptions EXCEPT !.headers = Some(mergedHeaders)] ]

\* adapter.post(path, opts): the request kyBase.post issues.  ky lays the
\* call's headers over the instance's and takes the call's signal.
post(ad, opts) ==
    [ prefixUrl |-> ad.ky.prefixUrl,
      headers   |-> Spread(ad.ky.headers, OrEmpty(opts.headers)),
      signal    |-> opts.signal,
      hooks     |-> ad.ky.hooks ]

\* What the facade's methods pass to post: none passes a signal, and only
\* createTranscription passes headers (an empty object).
FacadePostOpts ==
    { [headers |-> h, signal |-> Undef] : h \in {None, Some(EmptyMap)} }

\* RequestOpts of a client method, and extend's overrides.
RequestOpts ==
    [headers : OverrideHeaders, signal : Signals \cup {Undef}]

\* new OpenAIClient(opts) with nothing but the API key given, and with
\* everything given
BareConfig ==
    [ apiKey |-> "sk-1", organizationId |-> Undef, baseUrl |-> Undef,
      prefixUrl |-> Undef, headers |-> None, hooks |-> "absent" ]
FullConfig ==
    [ apiKey |-> "sk-1", organizationId |-> "org-1",
      baseUrl |-> "https://proxy.example/v1", prefixUrl |-> "https://alt.example/v1",
      headers |-> Some(One("X-Trace", "x")), hooks |-> "userBeforeError" ]

\* new OpenAIClient(opts): the configurations the model starts from, which
\* are the bare one with at most one option given, and the full one.
ConfigOpts ==
    { c \in [ apiKey         : {"sk-1"},
              organizationId : {Undef, "org-1"},
              baseUrl        : {Undef, "https://proxy.example/v1"},
              prefixUrl      : {Undef, "https://alt.example/v1"},
              headers        : ConfigHeaders,
              hooks          : {"absent", "noBeforeError", "userBeforeError"} ] :
          \/ Cardinality({ f \in DOMAIN c : c[f] # BareConfig[f] }) <= 1
          \/ c = FullConfig }

\* The heap holding the caller's hooks object, if the caller gave one.
CallerHeap(cfg) ==
    CASE cfg.hooks = "absent"          -> <<>>
      [] cfg.hooks = "noBeforeError"   -> <<None>>
      [] cfg.hooks = "userBeforeError" -> << Some(<<"userHook">>) >>

\* OpenAIClient's constructor: the createApiInstance call it makes.
ClientArgs(cfg) ==
    [ apiKey         |-> cfg.apiKey,
      baseUrl        |-> cfg.baseUrl,
      organizationId |-> cfg.organizationId,
      kyOptions      |-> [ headers   |-> cfg.headers,
                           hooks     |-> IF cfg.hooks = "absent" THEN 0 ELSE 1,
                           prefixUrl |-> cfg.prefixUrl ] ]

\* History kept beside an adapter for stating the claims: the adapter it was
\* extended from (0: the client's own), the override layers from the base
\* adapter down to it, and the override keys that were new to its parent.
History(parent, layers, newKeys) ==
    [parent |-> parent, layers |-> layers, newKeys |-> newKeys]

\* A request as remembered: through which adapter it went, and the
\* cancellation token the client call that made it was given.
Sent(a, ad, opts, callSignal) ==
    post(ad, opts) @@ [via |-> a, callSignal |-> callSignal]

IdleRt == [pc |-> "off"]
IdleNz == [pc |-> "off"]
IdleTr == [pc |-> "off"]
IdleSd == [pc |-> "off"]

InitAdapter ==
    /\ config \in ConfigOpts
    /\ LET made == createApiInstance(ClientArgs(config), CallerHeap(config))
       IN  /\ adapters = << made.adapter @@ History(0, <<>>, {}) >>
           /\ hookHeap = made.heap
    /\ requests = {}
    /\ aborted = {}
    /\ rt = IdleRt /\ nz = IdleNz /\ tr = IdleTr /\ sd = IdleSd

\* adapter.extend(overrides) on adapter a
Extend(a, overrides) ==
    /\ Len(adapters) < MaxAdapters
    /\ LET ad   == adapters[a]
           made == createApiInstance(extend(ad, overrides), hookHeap)
           ovh  == OrEmpty(overrides.headers)
       IN  /\ adapters' = Append(adapters,
                  made.adapter @@ History(a, Append(ad.layers, ovh),
                                          (DOMAIN ovh) \ (DOMAIN ad.ky.headers)))
           /\ hookHeap' = made.heap
    /\ UNCHANGED <<config, requests, aborted, rt, nz, tr, sd>>

\* adapter.post(path, opts) on adapter a
Post(a, opts) ==
    /\ Cardinality(requests) < MaxRequests
    /\ requests' = requests \cup {Sent(a, adapters[a], opts, Undef)}
    /\ requests' # requests
    /\ UNCHANGED <<config, adapters, hookHeap, aborted, rt, nz, tr, sd>>

\* A client method called with per-call overrides: getApi(opts) extends the
\* client's adapter and the method posts through the result at once.
ClientCall(overrides, opts) ==
    /\ Len(adapters) < MaxAdapters
    /\ Cardinality(requests) < MaxRequests
    /\ LET ad   == adapters[1]
           made == createApiInstance(extend(ad, overrides), hookHeap)
           ovh  == OrEmpty(overrides.headers)
           new  == made.adapter @@ History(1, Append(ad.layers, ovh),
                                           (DOMAIN ovh) \ (DOMAIN ad.ky.headers))
       IN  /\ adapters' = Append(adapters, new)
           /\ hookHeap' = made.heap
           /\ requests' = requests \cup
                  {Sent(Len(adapters) + 1, new, opts, overrides.signal)}
    /\ UNCHANGED <<config, aborted, rt, nz, tr, sd>>

\* The caller aborts a cancellation token it gave to a call.
Abort(s) ==
    /\ s \notin aborted
    /\ \E r \in requests : r.callSignal = s
    /\ aborted' = aborted \cup {s}
    /\ UNCHANGED <<config, adapters, hookHeap, requests, rt, nz, tr, sd>>

NextAdapter ==
    \/ \E a \in 1..Len(adapters), o \in RequestOpts : Extend(a, o)
    \/ \E a \in 1..Len(adapters), p \in FacadePostOpts : Post(a, p)
    \/ \E o \in RequestOpts, p \in FacadePostOpts : ClientCall(o, p)
    \/ \E s \in Signals : Abort(s)

Spec == InitAdapter /\ [][NextAdapter]_vars

(***************************************************************************)
(* Claims about the transport adapter.                                     *)
(***************************************************************************)
AllKeys == {"User-Agent", "Authorization", "OpenAI-Organization", "X-Trace"}
Absent == "absent"
\* the value a request carries for header k
Carried(h, k) == IF k \in DOMAIN h THEN h[k] ELSE Absent

\* every request adapter a has sent or could send now
RequestsThrough(a) ==
    { r.headers : r \in { q \in requests : q.via = a } }
      \cup { post(adapters[a], p).headers : p \in FacadePostOpts }

\* C1: when extend({headers: {K: v}}) derives adapter b from adapter a and K
\* was not configured on a, every request through b carries K: v and no
\* request through a carries K, whatever else has been extended or posted.
C1_ExtendHeaderIsolation ==
    \A b \in 1..Len(adapters) :
        adapters[b].parent # 0 =>
            \A K \in adapters[b].newKeys :
                LET v == adapters[b].layers[Len(adapters[b].layers)][K]
                IN  /\ \A h \in RequestsThrough(b) : Carried(h, K) = v
                    /\ \A h \in RequestsThrough(adapters[b].parent) :
                           Carried(h, K) = Absent

\* Two calls with different X-Trace overrides are in flight through adapters
\* derived from the client's, which does not configure X-Trace.
C1_Witness ==
    \E r1, r2 \in requests :
        /\ r1.via # r2.via
        /\ adapters[r1.via].parent = 1 /\ adapters[r2.via].parent = 1
        /\ "X-Trace" \in adapters[r1.via].newKeys
        /\ "X-Trace" \in adapters[r2.via].newKeys
        /\ r1.headers["X-Trace"] = "x" /\ r2.headers["X-Trace"] = "y"

\* C2 (as claimed): the cancellation token given to a client call is the
\* signal of that call's request, so aborting it cancels the request.
C2_AbortCancelsCall ==
    \A r \in requests : r.callSignal \in aborted => r.signal = r.callSignal

NormalizerCount(list) ==
    Cardinality({ i \in 1..Len(list) : list[i] = "normalizer" })

\* C3 (as claimed): the before-error list of every adapter, and of every
\* request, holds exactly one normalizer, and the caller's own list is not
\* grown by extending.
C3_NormalizedExactlyOnce ==
    /\ \A a \in 1..Len(adapters) : NormalizerCount(adapters[a].ky.hooks) = 1
    /\ \A r \in requests : NormalizerCount(r.hooks) = 1

\* The value the layering order gives key k on adapter a: the last override
\* layer that set it, else the constructor's headers, else the default.
Layered(a, k) ==
    LET L    == adapters[a].layers
        sets == { i \in 1..Len(L) : k \in DOMAIN L[i] }
    IN  IF sets # {} THEN L[SeqMax(sets)][k]
        ELSE IF config.headers # None /\ k \in DOMAIN config.headers[1]
             THEN config.headers[1][k]
        ELSE CASE k = "User-Agent" -> "openai-fetch"
               [] k = "Authorization" -> "Bearer sk-1"
               [] k = "OpenAI-Organization" ->
                      IF config.organizationId = Undef THEN Absent
                      ELSE config.organizationId
               [] OTHER -> Absent

\* C10: a derived adapter keeps the base URL, API key and organization id of
\* the original, and sends for each header key the value of the most recent
\* layer that set it: last extend, earlier extends, constructor headers,
\* built-in defaults.
C10_HeaderLayering ==
    \A a \in 1..Len(adapters) :
        /\ adapters[a].ky.prefixUrl = adapters[1].ky.prefixUrl
        /\ adapters[a].ky.prefixUrl =
               Or(config.baseUrl, Or(config.prefixUrl, DEFAULT_BASE_URL))
        /\ adapters[a].apiKey = config.apiKey
        /\ adapters[a].organizationId = config.organizationId
        /\ \A h \in RequestsThrough(a) : \A k \in AllKeys :
               Carried(h, k) = Layered(a, k)

\* A request through an adapter two extends away from a client constructed
\* with X-Trace, a base URL and a prefix URL, each extend setting X-Trace anew.
C10_Witness ==
    \E r \in requests :
        LET L == adapters[r.via].layers
        IN  /\ Len(L) = 2
            /\ config.headers = Some(One("X-Trace", "x"))
            /\ config.baseUrl # Undef /\ config.prefixUrl # Undef
            /\ L[1] = One("X-Trace", "y") /\ L[2] = One("X-Trace", "x")
            /\ r.headers["X-Trace"] = "x"

(***************************************************************************)
(* Retry: the policy createApiInstance hands to ky, and the request loop   *)
(* kyBase.post runs under it for one logical call.                         *)
(***************************************************************************)
\* largest retry count configured
MaxRetries == 2

\* A number option that was not given.
NotGiven == -1

\* kyOptions.retry as a caller may write it: not at all, or an object with
\* ky's `limit`, the readme's `retries`, and `methods` naming post or not.
RetryOptions ==
    { [given |-> FALSE, limit |-> NotGiven, retries |-> NotGiven, post |-> FALSE] }
      \cup [ given   : {TRUE},
             limit   : {NotGiven} \cup 1..MaxRetries,
             retries : {NotGiven} \cup 1..MaxRetries,
             post    : BOOLEAN ]

\* retry: retry ?? { delay }: the option goes to ky as written.  ky reads
\* `limit` (2 when absent) and `methods` (post is not among its defaults);
\* no code maps `retries` to `limit`.
KyRetry(retry) ==
    [ limit |-> IF retry.given /\ retry.limit # NotGiven THEN retry.limit ELSE 2,
      post  |-> retry.given /\ retry.post ]

\* statuses of the failing transport; ky retries 500 and not 400
FailingStatuses == {400, 500}
KyRetriesStatus(status) == status = 500

InitRetry ==
    /\ \E retry \in RetryOptions, status \in FailingStatuses :
           rt = [ pc |-> "attempt", retry |-> retry, transport |-> status,
                  attempts |-> 0, retryCount |-> 0,
                  surfaced |-> <<>> ]
    /\ config = [hooks |-> "absent"] /\ adapters = <<>> /\ hookHeap = <<>>
    /\ requests = {} /\ aborted = {}
    /\ nz = IdleNz /\ tr = IdleTr /\ sd = IdleSd

\* One HTTP attempt of the call; the transport fails it.
RtAttempt ==
    /\ rt.pc = "attempt"
    /\ rt' = [rt EXCEPT !.attempts = @ + 1, !.pc = "failed"]
    /\ UNCHANGED <<config, adapters, hookHeap, requests, aborted, nz, tr, sd>>

\* ky decides to retry: the method is retriable, the status is, and the
\* retry count stays within the limit.  (The default delay function is
\* replaced along with the rest of the default object once the caller gives
\* a retry option, and without one post is not retried: it plays no part.)
RtRetry ==
    /\ rt.pc = "failed"
    /\ LET ky == KyRetry(rt.retry)
       IN  /\ ky.post
           /\ KyRetriesStatus(rt.transport)
           /\ rt.retryCount + 1 <= ky.limit
           /\ rt' = [rt EXCEPT !.retryCount = @ + 1, !.pc = "attempt"]
    /\ UNCHANGED <<config, adapters, hookHeap, requests, aborted, nz, tr, sd>>

\* ky gives up: the before-error hooks run and the error reaches the caller.
RtSurface ==
    /\ rt.pc = "failed"
    /\ LET ky == KyRetry(rt.retry)
       IN  ~(ky.post /\ KyRetriesStatus(rt.transport) /\ rt.retryCount + 1 <= ky.limit)
    /\ rt' = [rt EXCEPT !.pc = "done", !.surfaced = Append(@, rt.transport)]
    /\ UNCHANGED <<config, adapters, hookHeap, requests, aborted, nz, tr, sd>>

NextRetry ==
    \/ RtAttempt
    \/ RtRetry
    \/ RtSurface

SpecRetry == InitRetry /\ [][NextRetry]_vars

\* the retry count the caller configured
ConfiguredRetries(retry) ==
    IF retry.retries # NotGiven THEN retry.retries ELSE retry.limit

\* C4 (as claimed): with a retry count N configured and a transport that
\* always fails, one call makes at most N HTTP attempts and the caller sees
\* one error.
C4_AtMostNAttempts ==
    (rt.pc = "done" /\ rt.retry.given /\ ConfiguredRetries(rt.retry) # NotGiven) =>
        /\ rt.attempts <= ConfiguredRetries(rt.retry)
        /\ Len(rt.surfaced) = 1

(***************************************************************************)
(* Error normalizer: the before-error hook createApiInstance registers.    *)
(***************************************************************************)
\* JavaScript values, as far as the hook tells them apart.
JUndef == [t |-> "undefined"]
JNull == [t |-> "null"]
JStr(str) == [t |-> "string", s |-> str]
JBool(b) == [t |-> "boolean", b |-> b]
JObj(fields) == [t |-> "object", f |-> fields]

\* the body texts a failed response may hold
TextErrCode == "{\"error\":{\"code\":\"rate_limit\"}}"
TextErrMessage == "{\"error\":{\"message\":\"bad\"}}"
TextErrEmpty == "{\"error\":{}}"
TextErrNull == "{\"error\":null}"
TextNoError == "{\"ok\":true}"
TextNull == "null"
TextPlain == "Internal Server Error"
TextTruncated == "{\"error\":"
Texts == {TextErrCode, TextErrMessage, TextErrEmpty, TextErrNull, TextNoError,
          TextNull, TextPlain, TextTruncated, ""}

\* JSON.parse on those texts: the value, or ok = FALSE where it throws.
JSONParse(text) ==
    CASE text = TextErrCode ->
            [ok |-> TRUE, val |-> JObj(One("error", JObj(One("code", JStr("rate_limit")))))]
      [] text = TextErrMessage ->
            [ok |-> TRUE, val |-> JObj(One("error", JObj(One("message", JStr("bad")))))]
      [] text = TextErrEmpty ->
            [ok |-> TRUE, val |-> JObj(One("error", JObj(EmptyMap)))]
      [] text = TextErrNull -> [ok |-> TRUE, val |-> JObj(One("error", JNull))]
      [] text = TextNoError -> [ok |-> TRUE, val |-> JObj(One("ok", JBool(TRUE)))]
      [] text = TextNull -> [ok |-> TRUE, val |-> JNull]
      [] OTHER -> [ok |-> FALSE, val |-> JUndef]

\* safeJson(text): the parsed value, undefined where JSON.parse throws
safeJson(text) == IF JSONParse(text).ok THEN JSONParse(text).val ELSE JUndef

\* v?.key
OptMember(v, key) ==
    IF v.t = "object" /\ key \in DOMAIN v.f THEN v.f[key] ELSE JUndef

Truthy(v) ==
    CASE v.t = "object" -> TRUE
      [] v.t = "string" -> v.s # ""
      [] v.t = "boolean" -> v.b
      [] OTHER -> FALSE

\* the entries of the failed responses' headers
ResponseHeaders == One("x-request-id", "req-1")

\* parseHeaders(headers): {} for none, the entries of an iterable or of a
\* plain object, {} when iterating throws.
parseHeaders(headers) ==
    CASE headers = "null" -> EmptyMap
      [] headers = "Headers" -> ResponseHeaders
      [] headers = "plainObject" -> ResponseHeaders
      [] headers = "throwingIterator" -> EmptyMap

\* new APIError(status, errorResponse, message, hdrs)
APIError(status, errorResponse, message, hdrs) ==
    [kind |-> "APIError", status |-> status, error |-> errorResponse,
     message |-> message, headers |-> hdrs]

\* A plausible slip: the raw text is kept as the message in every case.
afterText_KeepsMessage(status, hdrs, errText) ==
    APIError(status, OptMember(safeJson(errText), "error"), JStr(errText), hdrs)

\* The hook from the body text on: errorResponse = safeJson(errText)?.error;
\* message = errorResponse ? undefined : errText
afterText(status, hdrs, errText) ==
    LET errorResponse == OptMember(safeJson(errText), "error")
        message == IF Truthy(errorResponse) THEN JUndef ELSE JStr(errText)
    IN  APIError(status, errorResponse, message, hdrs)

\* the message of the error a rejected body read carries
ReadFailure == "body stream failed"

\* The errors the hook may be handed: no response (a cause only), or a
\* response with a status, headers of some kind and a body that is absent
\* (null), unread, already read or locked, or failing when read.
HookErrors ==
    { [response |-> FALSE, cause |-> c, status |-> 0, headers |-> "null",
       body |-> "null", text |-> ""] : c \in {"fetch failed", "timeout"} }
      \cup [ response : {TRUE}, cause : {"HTTPError"}, status : {400, 500},
             headers : {"null", "Headers", "plainObject", "throwingIterator"},
             body : {"unread", "readFails", "used"}, text : Texts ]
      \cup [ response : {TRUE}, cause : {"HTTPError"}, status : {400, 500},
             headers : {"null", "Headers", "plainObject", "throwingIterator"},
             body : {"null"}, text : {""} ]

InitNormalizer ==
    /\ \E e \in HookErrors : nz = [pc |-> "hook", error |-> e, result |-> [kind |-> "none"]]
    /\ config = [hooks |-> "absent"] /\ adapters = <<>> /\ hookHeap = <<>>
    /\ requests = {} /\ aborted = {}
    /\ rt = IdleRt /\ tr = IdleTr /\ sd = IdleSd

\* The hook runs without a response: APIError.generate(undefined, error, ...)
NzGenerate ==
    /\ nz.pc = "hook" /\ ~nz.error.response
    /\ nz' = [nz EXCEPT !.pc = "done",
                        !.result = [kind |-> "generated", cause |-> nz.error.cause]]
    /\ UNCHANGED <<config, adapters, hookHeap, requests, aborted, rt, tr, sd>>

\* The hook runs on a response without a body.
NzNoBody ==
    /\ nz.pc = "hook" /\ nz.error.response /\ nz.error.body = "null"
    /\ nz' = [nz EXCEPT !.pc = "done",
                        !.result = APIError(nz.error.status, JUndef, JUndef,
                                            parseHeaders(nz.error.headers))]
    /\ UNCHANGED <<config, adapters, hookHeap, requests, aborted, rt, tr, sd>>

\* The hook runs on a response with a body, up to its await: response.clone()
\* throws a TypeError when the body was read or is locked, and nothing
\* catches it; otherwise the hook waits for the text.
NzClone ==
    /\ nz.pc = "hook" /\ nz.error.response /\ nz.error.body # "null"
    /\ IF nz.error.body = "used"
       THEN nz' = [nz EXCEPT !.pc = "done",
                             !.result = [kind |-> "threw", what |-> "TypeError"]]
       ELSE nz' = [nz EXCEPT !.pc = "awaitText"]
    /\ UNCHANGED <<config, adapters, hookHeap, requests, aborted, rt, tr, sd>>

\* The text arrives, or the read rejects and .catch turns the rejection into
\* its message; the hook returns the APIError.
NzText ==
    /\ nz.pc = "awaitText"
    /\ LET errText == IF nz.error.body = "readFails" THEN ReadFailure ELSE nz.error.text
       IN  nz' = [nz EXCEPT !.pc = "done",
                            !.result = afterText(nz.error.status,
                                                 parseHeaders(nz.error.headers), errText)]
    /\ UNCHANGED <<config, adapters, hookHeap, requests, aborted, rt, tr, sd>>

NextNormalizer == NzGenerate \/ NzNoBody \/ NzClone \/ NzText

SpecNormalizer == InitNormalizer /\ [][NextNormalizer]_vars

\* The error object E of the texts of shape {"error": {...}}.
ErrorObjectOf(text) ==
    CASE text = TextErrCode -> JObj(One("code", JStr("rate_limit")))
      [] text = TextErrMessage -> JObj(One("message", JStr("bad")))
      [] text = TextErrEmpty -> JObj(EmptyMap)

\* the texts that are not JSON
NotJSON == {TextPlain, TextTruncated, ""}

C6_NeverThrows ==
    (nz.pc = "done") => nz.result.kind \in {"APIError", "generated"}

(***************************************************************************)
(* API facade: OpenAIClient.createTranscription (src/src/openai-client.ts) *)
(***************************************************************************)
\* The values params.file may hold, by what the method's tests see of them.
FileValue(kind, truthy, isBlob, hasData, isBuffer) ==
    [kind |-> kind, truthy |-> truthy, isBlob |-> isBlob, hasData |-> hasData,
     isBuffer |-> isBuffer]

FileValues ==
    { FileValue("undefined", FALSE, FALSE, FALSE, FALSE),
      FileValue("null", FALSE, FALSE, FALSE, FALSE),
      FileValue("emptyString", FALSE, FALSE, FALSE, FALSE),
      FileValue("Blob", TRUE, TRUE, FALSE, FALSE),
      FileValue("File", TRUE, TRUE, FALSE, FALSE),
      FileValue("ArrayBuffer", TRUE, FALSE, FALSE, TRUE),
      FileValue("Uint8Array", TRUE, FALSE, FALSE, TRUE),
      FileValue("dataNameType", TRUE, FALSE, TRUE, FALSE),
      FileValue("string", TRUE, FALSE, FALSE, FALSE),
      FileValue("plainObject", TRUE, FALSE, FALSE, FALSE),
      FileValue("ReadableStream", TRUE, FALSE, FALSE, FALSE) }

ResponseFormats == {Undef, "json", "text", "srt", "verbose_json"}

\* A plausible slip in the required-file check: only a missing field fails.
FileMissing_OnlyUndefined(file) == file.kind = "undefined"

\* !file
FileMissing(file) == ~file.truthy

\* The multipart field the method appends for the file: a Blob it built, the
\* Blob it was given, or, in the fallback branch, the value as it is.
FileField(file) ==
    IF file.truthy /\ ~file.isBlob /\ file.hasData
    THEN [name |-> "file", value |-> "newBlob", from |-> file.kind]
    ELSE IF file.isBlob
    THEN [name |-> "file", value |-> "givenBlob", from |-> file.kind]
    ELSE IF file.isBuffer
    THEN [name |-> "file", value |-> "newBlob", from |-> file.kind]
    ELSE [name |-> "file", value |-> "asIs", from |-> file.kind]

\* The other fields the method appends: model always, response_format when given.
OtherFields(rf) ==
    << [name |-> "model", value |-> "string", from |-> "model"] >>
      \o (IF rf # Undef
          THEN << [name |-> "response_format", value |-> "string", from |-> rf] >>
          ELSE <<>>)

InitTranscription ==
    /\ \E f \in FileValues, rf \in ResponseFormats, o \in BOOLEAN, ok \in BOOLEAN :
           tr = [ pc |-> "called", file |-> f, response_format |-> rf,
                  withOpts |-> o, transportOk |-> ok,
                  form |-> <<>>, posts |-> 0, result |-> "pending" ]
    /\ config = [hooks |-> "absent"] /\ adapters = <<>> /\ hookHeap = <<>>
    /\ requests = {} /\ aborted = {}
    /\ rt = IdleRt /\ nz = IdleNz /\ sd = IdleSd

\* createTranscription up to its await: the file check, the form, the post.
TrCall ==
    /\ tr.pc = "called"
    /\ IF FileMissing(tr.file)
       THEN tr' = [tr EXCEPT !.pc = "done",
                             !.result = "Error: Transcription requires a file"]
       ELSE tr' = [tr EXCEPT !.pc = "posted",
                             !.form = <<FileField(tr.file)>> \o OtherFields(tr.response_format),
                             !.posts = @ + 1]
    /\ UNCHANGED <<config, adapters, hookHeap, requests, aborted, rt, nz, sd>>

\* The post settles: the method returns text or parsed JSON by
\* response_format, or the transport's error goes to the caller.
TrSettle ==
    /\ tr.pc = "posted"
    /\ tr' = [tr EXCEPT !.pc = "done",
                        !.result =
                            IF ~tr.transportOk THEN "APIError"
                            ELSE IF tr.response_format \in {"text", "srt", "vtt"}
                                 THEN "text" ELSE "json"]
    /\ UNCHANGED <<config, adapters, hookHeap, requests, aborted, rt, nz, sd>>

NextTranscription == TrCall \/ TrSettle

SpecTranscription == InitTranscription /\ [][NextTranscription]_vars

\* the representations the facade recognizes
Recognized(file) == file.isBlob \/ file.isBuffer \/ file.hasData

\* C7 (as claimed): a file value of no recognized representation makes the
\* call fail with a validation error before any post.
C7_UnsupportedFileRejected ==
    (tr.pc # "called" /\ tr.file.truthy /\ ~Recognized(tr.file)) =>
        /\ tr.posts = 0
        /\ (tr.pc = "done" => tr.result \notin {"text", "json", "APIError"})

\* C8: a call without a file (missing or falsy) fails with the validation
\* error and the transport's post is never invoked for it.
C8_NoFileNoPost ==
    ~tr.file.truthy =>
        /\ tr.posts = 0
        /\ tr.form = <<>>
        /\ (tr.pc # "called" =>
               /\ tr.pc = "done"
               /\ tr.result = "Error: Transcription requires a file")

\* A call given file: null and per-call overrides has failed.
C8_Witness ==
    /\ tr.pc = "done" /\ tr.file.kind = "null" /\ tr.withOpts
    /\ tr.result = "Error: Transcription requires a file" /\ tr.posts = 0

(***************************************************************************)
(* Stream chunk decoder: StreamCompletionChunker, which the two streaming  *)
(* methods pipe the response body through.  Its file is not among the      *)
(* sources; the decoder below follows the specification's section 4.3.     *)
(***************************************************************************)
\* data frames in a stream
MaxFrames == 2

LF == "\n"
DataPrefix == <<"d", "a", "t", "a", ":", " ">>
Delimiter == <<LF, LF>>
DoneToken == <<"[", "D", "O", "N", "E", "]">>
\* one-character payloads: the JSON numbers 1 and 2, and x, which is not JSON
Payloads == {"1", "2", "x"}

Frame(payload) == DataPrefix \o payload \o Delimiter

RECURSIVE Bytes(_)
\* the bytes of a stream of frames
Bytes(payloads) ==
    IF payloads = <<>> THEN <<>>
    ELSE Frame(payloads[1]) \o Bytes(Tail(payloads))

\* the mapping function both streaming methods pass: (response) => response
responseFactory(chunk) == chunk

\* JSON.parse of a payload
ParsePayload(payload) ==
    CASE payload = <<"1">> -> [ok |-> TRUE, val |-> 1]
      [] payload = <<"2">> -> [ok |-> TRUE, val |-> 2]
      [] OTHER -> [ok |-> FALSE, val |-> 0]

HasPrefix(q, pre) == Len(q) >= Len(pre) /\ SubSeq(q, 1, Len(pre)) = pre

\* index of the first delimiter in buf, 0 if there is none
FirstDelimiter(buf) ==
    LET at == { i \in 1..(Len(buf) - 1) : buf[i] = LF /\ buf[i + 1] = LF }
    IN  IF at = {} THEN 0 ELSE CHOOSE i \in at : \A j \in at : i <= j

\* One complete frame: its payload ends the sequence when it is [DONE], is
\* yielded through the mapping function when it parses, and is a decode
\* error otherwise.  A frame without a data line is ignored.
OnFrame(d, frame) ==
    IF ~HasPrefix(frame, DataPrefix) THEN d
    ELSE LET payload == SubSeq(frame, Len(DataPrefix) + 1, Len(frame))
         IN  IF payload = DoneToken THEN [d EXCEPT !.state = "TERMINATED"]
             ELSE IF ParsePayload(payload).ok
                  THEN [d EXCEPT !.out = Append(@, responseFactory(ParsePayload(payload).val))]
                  ELSE [d EXCEPT !.state = "TERMINATED", !.failed = TRUE]

RECURSIVE Drain(_)
\* Take complete frames off the buffer while there are any.
Drain(d) ==
    LET i == FirstDelimiter(d.buffer)
    IN  IF d.state = "TERMINATED" \/ i = 0
        THEN IF d.state = "TERMINATED" THEN d
             ELSE [d EXCEPT !.state = IF d.buffer = <<>> THEN "AWAITING_DELIMITER"
                                      ELSE "HAVE_PARTIAL_FRAME"]
        ELSE Drain(OnFrame([d EXCEPT !.buffer = SubSeq(@, i + 2, Len(@))],
                           SubSeq(d.buffer, 1, i - 1)))

\* A decoder that decodes each chunk by itself, keeping no remainder.
Transform_NoBuffer(d, chunk) ==
    IF d.state = "TERMINATED" THEN d
    ELSE [Drain([d EXCEPT !.buffer = chunk]) EXCEPT !.buffer = <<>>]

\* The decoder takes a chunk: it joins it to the held remainder and drains.
Transform(d, chunk) ==
    IF d.state = "TERMINATED" THEN d
    ELSE Drain([d EXCEPT !.buffer = @ \o chunk])

\* The byte stream closes: the sequence ends, a held remainder is dropped.
Flush(d) == [d EXCEPT !.state = "TERMINATED", !.buffer = <<>>]

PayloadLists ==
    UNION { [1..n -> { <<c>> : c \in Payloads }] : n \in 0..MaxFrames }

InitStream ==
    /\ \E ps \in PayloadLists, done \in BOOLEAN :
           LET all == IF done THEN ps \o <<DoneToken>> ELSE ps
           IN  sd = [ pc |-> "open", payloads |-> ps, done |-> done,
                      rest |-> Bytes(all), delivered |-> 0,
                      cutInFrame |-> FALSE, cutInDelimiter |-> FALSE,
                      d |-> [state |-> "AWAITING_DELIMITER", buffer |-> <<>>,
                             out |-> <<>>, failed |-> FALSE] ]
    /\ config = [hooks |-> "absent"] /\ adapters = <<>> /\ hookHeap = <<>>
    /\ requests = {} /\ aborted = {}
    /\ rt = IdleRt /\ nz = IdleNz /\ tr = IdleTr

\* The transport delivers the next k bytes as one chunk.  (cutInFrame and
\* cutInDelimiter remember, for the claims, whether a chunk has ended inside
\* a frame's text and between the two line feeds of a delimiter.)
SdChunk(k) ==
    /\ sd.pc = "open" /\ k \in 1..Len(sd.rest)
    /\ sd' = [sd EXCEPT !.rest = SubSeq(@, k + 1, Len(@)),
                        !.delivered = @ + k,
                        !.cutInFrame = @ \/ (k < Len(sd.rest) /\ sd.rest[k] # LF),
                        !.cutInDelimiter =
                            @ \/ (k < Len(sd.rest) /\ sd.rest[k] = LF /\ sd.rest[k + 1] = LF),
                        !.d = Transform(@, SubSeq(sd.rest, 1, k))]
    /\ UNCHANGED <<config, adapters, hookHeap, requests, aborted, rt, nz, tr>>

\* The transport closes the stream after the last byte.
SdClose ==
    /\ sd.pc = "open" /\ sd.rest = <<>>
    /\ sd' = [sd EXCEPT !.pc = "closed", !.d = Flush(@)]
    /\ UNCHANGED <<config, adapters, hookHeap, requests, aborted, rt, nz, tr>>

NextStream ==
    \/ \E k \in 1..(Len(Frame(<<"1">>)) * (MaxFrames + 2)) : SdChunk(k)
    \/ SdClose

SpecStream == InitStream /\ [][NextStream]_vars

\* the stream holds only data frames whose payload is JSON
WellFormed == \A i \in 1..Len(sd.payloads) : sd.payloads[i] # <<"x">>

\* the values of the data frames, in frame order
FrameValues == [i \in 1..Len(sd.payloads) |-> IF sd.payloads[i] = <<"1">> THEN 1 ELSE 2]

\* the number of data frames whose last byte has been delivered
FramesDelivered ==
    LET n == sd.delivered \div Len(Frame(<<"1">>))
    IN  IF n > Len(sd.payloads) THEN Len(sd.payloads) ELSE n

\* C9: for data frames followed by the [DONE] frame, however the bytes are
\* cut into chunks: what has been yielded is exactly the values of the
\* frames delivered in full, in frame order (none early, dropped or
\* duplicated), and once the sentinel frame is in, the sequence has ended
\* with one value per data frame.
C9_ChunkBoundaryIndependent ==
    (WellFormed /\ sd.done) =>
        /\ sd.d.out = SubSeq(FrameValues, 1, FramesDelivered)
        /\ ~sd.d.failed
        /\ (sd.rest = <<>> =>
               /\ sd.d.state = "TERMINATED"
               /\ sd.d.out = FrameValues)
        /\ (sd.rest # <<>> => sd.d.state # "TERMINATED")

\* Two data frames and the sentinel have been decoded from chunks that cut
\* inside a frame's text and inside a delimiter.
C9_Witness ==
    /\ sd.done /\ sd.payloads = << <<"1">>, <<"2">> >>
    /\ sd.cutInFrame /\ sd.cutInDelimiter
    /\ sd.rest = <<>> /\ sd.d.out = <<1, 2>> /\ sd.d.state = "TERMINATED"

====
